---- MODULE Spec2Model ----
(***************************************************************************)
(* Model of src/src/cognito_assume_role/providers.py: the configuration    *)
(* readers, TokenCache, CognitoIdentity (cognito_login, the credentials    *)
(* fetcher built by _create_credentials_fetcher, load) and TokenFetcher    *)
(* (login_loop, start_server).                                             *)
(*                                                                         *)
(* Values.  Tokens issued by the identity service are positive serial      *)
(* numbers; None is Python's None, Absent a key that the dict does not     *)
(* hold (reading it raises KeyError).  A timestamp is a record             *)
(* [type, layout, t]: type "datetime" is a datetime object at time t, type *)
(* "str" the text of that time in the given layout, "absent" a missing key.*)
(***************************************************************************)
EXTENDS Integers, Sequences, FiniteSets, TLC

(* ------------------------------ bounds -------------------------------- *)
\* Depth of nested cognito_login frames at which Python raises RecursionError.
RecursionLimit == 3
\* Top-level cognito_login() calls made by the calling thread.
MaxCalls == 2
\* Invocations of load() / the fetch function.
MaxFetches == 1
\* Token sets the identity service issues.
MaxTokens == 2
\* Clock advances (each of TickStep seconds) besides the loop's own sleeps.
MaxTicks == 1
TickStep == 100
\* Consecutive reads of TokenCache.tokens after a store.
MaxLoads == 2
MaxInstances == 2

(* ------------------------- program constants -------------------------- *)
None == 0
Absent == -1
\* login_loop: timedelta(seconds=60) and sleep(5)
Margin == 60
SleepIncrement == 5

\* ExpiresIn values the identity service may declare, and lifetimes of the
\* credentials the federation service may issue (seconds).
Lifetimes == {10, 3600}
CredLifetimes == {900}

Threads == {"caller", "fetcher", "server"}

(* ----------------------- configuration readers ------------------------ *)
envList == << "COGNITO_APP_ID", "COGNITO_PASSWORD", "COGNITO_USERNAME",
              "COGNITO_USER_POOL_ID", "COGNITO_IDENTITY_POOL_ID" >>
opt_list == << "app_id", "password", "username", "user_pool_id", "identity_pool_id" >>

Range(s) == {s[i] : i \in DOMAIN s}
Fields == Range(opt_list)
EnvVars == Range(envList)
\* keys an explicit config mapping may hold: the five fields and "region"
ConfigKeys == Fields \cup {"region"}

\* a wrong comprehension: keeps the names that ARE present
MissingPresent(names, present) == SelectSeq(names, LAMBDA x : x \in present)
\* [x for x in names if x not in present]
Missing(names, present) == SelectSeq(names, LAMBDA x : x \notin present)

get_cognito_config_from_env(env) ==
    LET missing == Missing(envList, env) IN
    IF missing # << >> /\ Len(missing) # Len(envList)
    THEN [raised |-> TRUE, missing |-> missing, res |-> {}]
    ELSE IF missing = << >>
         THEN [raised |-> FALSE, missing |-> << >>, res |-> Fields \cup {"metadata"}]
         ELSE [raised |-> FALSE, missing |-> << >>, res |-> {}]

get_cognito_config(cfg) ==
    LET missing == Missing(opt_list, cfg) IN
    IF missing # << >> /\ cfg # {}
    THEN [raised |-> TRUE, missing |-> missing, res |-> {}]
    ELSE [raised |-> FALSE, missing |-> << >>, res |-> cfg]

(* ----------------------------- timestamps ----------------------------- *)
NoTime == [type |-> "absent", layout |-> "", t |-> 0]
\* a datetime object (datetime.now(tz) + timedelta, or the service's Expiration)
Datetime(t) == [type |-> "datetime", layout |-> "", t |-> t]
\* str(d) of a timezone-aware datetime: "YYYY-MM-DD HH:MM:SS.ffffff+HH:MM"
Str(d) == [type |-> "str", layout |-> "%Y-%m-%d %H:%M:%S.%f%z", t |-> d.t]
\* datetime.strptime(s, fmt): the parsed time, or the exception it raises
strptime(s, fmt) ==
    IF s.type = "absent" THEN [exc |-> "KeyError", t |-> 0]
    ELSE IF s.type # "str" THEN [exc |-> "TypeError", t |-> 0]
    ELSE IF s.layout # fmt THEN [exc |-> "ValueError", t |-> 0]
    ELSE [exc |-> "", t |-> s.t]

NoTokens == [id_token |-> Absent, access_token |-> Absent,
             token_expires |-> NoTime,
             refresh_token |-> Absent]

\* CognitoIdentity.__init__: the outcome of constructing a provider from an
\* explicit config mapping cfg, the environment env, the auth_type argument
\* ("none" when falsy) and COGNITO_AUTH_TYPE ("unset" when not in the environment).
CognitoIdentityInit(cfg, env, authArg, authEnv) ==
    LET c1 == get_cognito_config(cfg)
        c2 == get_cognito_config_from_env(env)
        base == IF c1.res # {} THEN c1.res ELSE c2.res
        auth_type == IF authArg # "none" THEN authArg
                     ELSE IF authEnv # "unset" THEN authEnv ELSE "user_srp"
    IN  IF c1.raised
        THEN [kind |-> "error", error |-> "config", missing |-> c1.missing,
              config |-> {}, auth_func |-> "none", tokens |-> NoTokens]
        ELSE IF c1.res = {} /\ c2.raised
        THEN [kind |-> "error", error |-> "env", missing |-> c2.missing,
              config |-> {}, auth_func |-> "none", tokens |-> NoTokens]
        ELSE IF auth_type \notin {"user_srp", "user_password"}
        THEN [kind |-> "error", error |-> "auth_type", missing |-> << >>,
              config |-> base \cup {"region_name"}, auth_func |-> "none",
              tokens |-> [NoTokens EXCEPT !.refresh_token = None]]
        ELSE [kind |-> "ok", error |-> "", missing |-> << >>,
              config |-> base \cup {"region_name"},
              auth_func |-> IF auth_type = "user_srp" THEN "_srp_auth" ELSE "_password_auth",
              tokens |-> [NoTokens EXCEPT !.refresh_token = None]]

(* ------------------------------- state -------------------------------- *)
VARIABLES
    cfgIn,          \* keys of the config argument of __init__
    envIn,          \* COGNITO_* variables set in the environment
    authTypeIn,     \* the auth_type argument ("none" when falsy)
    envAuthType,    \* COGNITO_AUTH_TYPE ("unset" when not set)
    ctor,           \* outcome of __init__ ("pending" before it ran)
    config,         \* keys of self.config
    auth_func,      \* self._auth_func
    cognito_tokens, \* self.cognito_tokens (the live dict)
    token_cache,    \* self.token_cache: backend and stored document
    self_auth,      \* self.auth: IdToken of the last full login result
    now,            \* the clock (seconds)
    nextTok,        \* serial of the next token set the service issues
    lpc,            \* per thread: position inside cognito_login
    depth,          \* per thread: nested cognito_login frames
    auth,           \* per thread: the local variable auth
    attempts,       \* per thread: upstream authentication attempts of the current call
    heldAtCall,     \* per thread: refresh token held when the call was made
    lret,           \* per thread: value the call returns
    calls,          \* cognito_login() calls made by the calling thread
    fpc,            \* position of the fetcher thread in load()/assume_role
    idToken,        \* assume_role: local idToken
    credentials,    \* assume_role: Expiration of the issued credentials
    cond,           \* assume_role: value of the comparison at line 308
    reads,          \* which token set each read of token_expires at line 308 saw
    fsnap,          \* cognito_tokens when the fetch was invoked
    fres,           \* outcome of the last load()/fetch
    fetches,        \* fetches invoked
    spc,            \* position of the login_loop thread
    loop_exc,       \* exception that ended the login_loop thread
    cache_in,       \* the mapping last handed to TokenCache.cache_tokens
    loads,          \* results of TokenCache.tokens since that store
    class_tokens,   \* CognitoIdentity.cognito_tokens, the dict of the class
    inst_tokens,    \* per instance that has one: its own cognito_tokens attribute
    built           \* the CognitoIdentity instances constructed so far

inputVars == << cfgIn, envIn, authTypeIn, envAuthType >>
provVars  == << ctor, config, auth_func >>
loginVars == << lpc, depth, auth, attempts, heldAtCall, lret >>
fetchVars == << fpc, idToken, credentials, cond, reads, fsnap, fres, fetches >>
loopVars  == << spc, loop_exc >>
instVars  == << class_tokens, inst_tokens, built >>
sideVars  == << cache_in, loads, instVars >>
vars == << cfgIn, envIn, authTypeIn, envAuthType, ctor, config, auth_func,
           cognito_tokens, token_cache, self_auth, now, nextTok,
           lpc, depth, auth, attempts, heldAtCall, lret, calls,
           fpc, idToken, credentials, cond, reads, fsnap, fres, fetches,
           spc, loop_exc, cache_in, loads, class_tokens, inst_tokens, built >>

NoAuth == [IdToken |-> None, AccessToken |-> None, ExpiresIn |-> 0,
           RefreshToken |-> None, flow |-> "none"]
NoResult == [kind |-> "pending", exc |-> "", expiry_time |-> NoTime, id |-> None]
NoReads == [compare |-> None, select |-> None]
\* What a cache backend holds: no characters ("empty"), the JSON document
\* of a token mapping ("json"), or characters that are not JSON: "text"
\* starts with no JSON value at all (such as `garbage`), "cut" is a
\* document broken off after its opening brace.
EmptyCache == [doc |-> "empty", tokens |-> NoTokens]
TextDoc == [doc |-> "text", tokens |-> NoTokens]
CutDoc == [doc |-> "cut", tokens |-> NoTokens]
\* json.dumps(tokens)
JsonDoc(tokens) == [doc |-> "json", tokens |-> tokens]
\* TokenCache(cache) as CognitoIdentity.__init__ creates it: an empty
\* StringIO, or a path at which no file has been written yet
FreshCache(b) == [backend |-> b, content |-> EmptyCache, pos |-> 0,
                  exists |-> (b = "StringIO")]
NoStore == [kind |-> "none", tokens |-> NoTokens]
Pending == [kind |-> "pending", error |-> "", missing |-> << >>,
            config |-> {}, auth_func |-> "none", tokens |-> NoTokens]

\* everything but the constructor's inputs and outcome, before any operation
Quiet ==
    /\ self_auth = None
    /\ now = 0
    /\ nextTok = 1
    /\ lpc = [th \in Threads |-> "idle"]
    /\ depth = [th \in Threads |-> 0]
    /\ auth = [th \in Threads |-> NoAuth]
    /\ attempts = [th \in Threads |-> << >>]
    /\ heldAtCall = [th \in Threads |-> None]
    /\ lret = [th \in Threads |-> None]
    /\ calls = 0
    /\ fpc = "idle"
    /\ idToken = None
    /\ credentials = NoTime
    /\ cond = FALSE
    /\ reads = NoReads
    /\ fsnap = NoTokens
    /\ fres = NoResult
    /\ fetches = 0
    /\ spc = "off"
    /\ loop_exc = ""
    /\ cache_in = NoStore
    /\ loads = << >>
    /\ class_tokens = NoTokens
    /\ inst_tokens = << >>
    /\ built = {}

(* ---------------- construction, over all its inputs ------------------- *)
AuthTypeArgs == {"none", "user_srp", "user_password", "saml"}
AuthTypeEnvs == {"unset", "user_password", "saml"}
Backends == {"StringIO", "file"}

InitConfig ==
    /\ cfgIn \in SUBSET ConfigKeys
    /\ envIn \in SUBSET EnvVars
    /\ authTypeIn \in AuthTypeArgs
    /\ envAuthType \in AuthTypeEnvs
    /\ ctor = Pending
    /\ config = {}
    /\ auth_func = "none"
    /\ cognito_tokens = NoTokens
    /\ token_cache \in {FreshCache(b) : b \in Backends}
    /\ Quiet

\* CognitoIdentity(auth_type, config, region_name, token_cache)
Construct ==
    /\ ctor.kind = "pending"
    /\ LET r == CognitoIdentityInit(cfgIn, envIn, authTypeIn, envAuthType) IN
        /\ ctor' = r
        /\ config' = r.config
        /\ auth_func' = r.auth_func
        /\ cognito_tokens' = r.tokens
    /\ UNCHANGED << inputVars, sideVars, token_cache, self_auth, now, nextTok, calls,
                    loginVars, fetchVars, loopVars >>

NextConfig == Construct
SpecConfig == InitConfig /\ [][NextConfig]_vars

(* ------------- a constructed provider and its operations -------------- *)
\* the constructor inputs the provider is exercised with: no configuration
\* at all, a complete explicit config
ProviderInputs == { << {}, {} >>, << Fields, {} >> }

Init ==
    /\ \E inputs \in ProviderInputs : cfgIn = inputs[1] /\ envIn = inputs[2]
    /\ authTypeIn \in {"user_srp", "user_password"}
    /\ envAuthType = "unset"
    /\ ctor = CognitoIdentityInit(cfgIn, envIn, authTypeIn, envAuthType)
    /\ ctor.kind = "ok"
    /\ config = ctor.config
    /\ auth_func = ctor.auth_func
    /\ cognito_tokens = ctor.tokens
    /\ token_cache \in {FreshCache(b) : b \in Backends}
    /\ Quiet

\* entering cognito_login() in thread th
EnterLogin(th) ==
    /\ lpc' = [lpc EXCEPT ![th] = "call"]
    /\ depth' = [depth EXCEPT ![th] = 1]
    /\ auth' = [auth EXCEPT ![th] = NoAuth]
    /\ attempts' = [attempts EXCEPT ![th] = << >>]
    /\ heldAtCall' = [heldAtCall EXCEPT ![th] = cognito_tokens.refresh_token]
    /\ lret' = [lret EXCEPT ![th] = None]

\* the calling thread invokes provider.cognito_login()
\* (TokenFetcher.__init__, TokenFetcher.fetch, or directly)
CallLogin ==
    /\ ctor.kind = "ok"
    /\ lpc["caller"] = "idle"
    /\ calls < MaxCalls
    /\ calls' = calls + 1
    /\ EnterLogin("caller")
    /\ UNCHANGED << inputVars, sideVars, provVars, cognito_tokens, token_cache, self_auth,
                    now, nextTok, fetchVars, loopVars >>

\* the AuthFlow of the request cognito_login makes (lines 200-203)
AuthFlowFor(tokens, func) ==
    IF tokens.refresh_token # None THEN "REFRESH_TOKEN_AUTH"
    ELSE IF func = "_srp_auth" THEN "USER_SRP_AUTH"
    ELSE "USER_PASSWORD_AUTH"

\* what the identity service answers to a successful request
ServiceAuth(flow, serial, expiresIn) ==
    [IdToken |-> serial, AccessToken |-> serial, ExpiresIn |-> expiresIn,
     RefreshToken |-> IF flow = "REFRESH_TOKEN_AUTH" THEN Absent ELSE serial,
     flow |-> flow]

\* lines 200-203 with _refresh_auth / _srp_auth / _password_auth: one upstream
\* authentication attempt; outcome 0 is a failure (any exception raised by
\* the request, the challenge computation or the response), otherwise the
\* ExpiresIn the service declares.
LoginAttempt(th) ==
    /\ lpc[th] = "call"
    /\ LET flow == AuthFlowFor(cognito_tokens, auth_func) IN
       \E outcome \in {0} \cup Lifetimes :
        /\ outcome # 0 => (Fields \subseteq config /\ nextTok <= MaxTokens)
        /\ attempts' = [attempts EXCEPT ![th] =
                Append(@, [flow |-> flow, ok |-> outcome # 0,
                           rt |-> cognito_tokens.refresh_token])]
        /\ IF outcome # 0
           THEN /\ auth' = [auth EXCEPT ![th] = ServiceAuth(flow, nextTok, outcome)]
                /\ nextTok' = nextTok + 1
                /\ self_auth' = IF flow = "REFRESH_TOKEN_AUTH" THEN self_auth ELSE nextTok
                /\ lpc' = [lpc EXCEPT ![th] = "assign"]
           ELSE /\ lpc' = [lpc EXCEPT ![th] = "handler"]
                /\ UNCHANGED << auth, nextTok, self_auth >>
    /\ UNCHANGED << inputVars, sideVars, provVars, cognito_tokens, token_cache, now, calls,
                    depth, heldAtCall, lret, fetchVars, loopVars >>

\* the dict with an expiry that leaves out the clock
NewTokensNoClock(a, held, clock) ==
    [id_token |-> a.IdToken,
     access_token |-> a.AccessToken,
     token_expires |-> Datetime(a.ExpiresIn),
     refresh_token |-> IF a.flow = "REFRESH_TOKEN_AUTH" THEN held.refresh_token
                       ELSE a.RefreshToken]
\* the dict built from the service's response alone, without line 283
NewTokensFromResponse(a, held, clock) ==
    [id_token |-> a.IdToken,
     access_token |-> a.AccessToken,
     token_expires |-> Datetime(clock + a.ExpiresIn),
     refresh_token |-> a.RefreshToken]
\* the dict cognito_login builds from auth (line 283, lines 206-213)
NewTokens(a, held, clock) ==
    [id_token |-> a.IdToken,
     access_token |-> a.AccessToken,
     token_expires |-> Datetime(clock + a.ExpiresIn),
     refresh_token |-> IF a.flow = "REFRESH_TOKEN_AUTH" THEN held.refresh_token
                       ELSE a.RefreshToken]

LoginAssign(th) ==
    /\ lpc[th] = "assign"
    /\ cognito_tokens' = NewTokens(auth[th], cognito_tokens, now)
    /\ lpc' = [lpc EXCEPT ![th] = "cache"]
    /\ UNCHANGED << inputVars, sideVars, provVars, token_cache, self_auth, now, nextTok, calls,
                    depth, auth, attempts, heldAtCall, lret, fetchVars, loopVars >>

\* TokenCache.cache_tokens, lines 79-80: the dict it is handed, after the call
Stringified(tokens) ==
    IF tokens.token_expires.type = "datetime"
    THEN [tokens EXCEPT !.token_expires = Str(tokens.token_expires)]
    ELSE tokens

\* a store that leaves the new buffer positioned at its end (no seek(0))
StoredNoSeek(cache, tokens) ==
    [cache EXCEPT !.content = JsonDoc(tokens), !.pos = 1, !.exists = TRUE]
\* TokenCache.cache_tokens, lines 82-91: the backend after the write: a new
\* StringIO holding the document, rewound, or the file written anew
Stored(cache, tokens) ==
    [cache EXCEPT !.content = JsonDoc(tokens), !.pos = 0, !.exists = TRUE]

\* lines 215-216 with TokenCache.cache_tokens (78-91): the dict handed over is
\* the live one; a file backend may fail to open the file for writing.
LoginCache(th) ==
    /\ lpc[th] = "cache"
    /\ cognito_tokens' = Stringified(cognito_tokens)
    /\ \E written \in (IF token_cache.backend = "file" THEN BOOLEAN ELSE {TRUE}) :
        IF written
        THEN /\ token_cache' = Stored(token_cache, Stringified(cognito_tokens))
             /\ lret' = [lret EXCEPT ![th] = auth[th].IdToken]
             /\ lpc' = [lpc EXCEPT ![th] = "return"]
        ELSE /\ lpc' = [lpc EXCEPT ![th] = "handler"]
             /\ UNCHANGED << token_cache, lret >>
    /\ UNCHANGED << inputVars, sideVars, provVars, self_auth, now, nextTok, calls,
                    depth, auth, attempts, heldAtCall, fetchVars, loopVars >>

\* a handler that also persists the tokens it has just cleared
LoginHandlerCaching(th) ==
    /\ lpc[th] = "handler"
    /\ cognito_tokens' = [cognito_tokens EXCEPT !.refresh_token = None]
    /\ token_cache' = [token_cache EXCEPT !.content = JsonDoc(cognito_tokens'),
                                          !.pos = 0, !.exists = TRUE]
    /\ IF depth[th] < RecursionLimit
       THEN /\ depth' = [depth EXCEPT ![th] = @ + 1]
            /\ lpc' = [lpc EXCEPT ![th] = "call"]
            /\ lret' = lret
       ELSE /\ lret' = [lret EXCEPT ![th] = None]
            /\ lpc' = [lpc EXCEPT ![th] = "return"]
            /\ depth' = depth
    /\ UNCHANGED << inputVars, sideVars, provVars, self_auth, now, nextTok, calls,
                    auth, attempts, heldAtCall, fetchVars, loopVars >>

\* lines 218-224: clear the refresh token and call cognito_login again; the
\* nested call raises only by exhausting the interpreter's stack, which the
\* inner handler logs before returning None.
LoginHandler(th) ==
    /\ lpc[th] = "handler"
    /\ cognito_tokens' = [cognito_tokens EXCEPT !.refresh_token = None]
    /\ IF depth[th] < RecursionLimit
       THEN /\ depth' = [depth EXCEPT ![th] = @ + 1]
            /\ lpc' = [lpc EXCEPT ![th] = "call"]
            /\ lret' = lret
       ELSE /\ lret' = [lret EXCEPT ![th] = None]
            /\ lpc' = [lpc EXCEPT ![th] = "return"]
            /\ depth' = depth
    /\ UNCHANGED << inputVars, sideVars, provVars, token_cache, self_auth, now, nextTok, calls,
                    auth, attempts, heldAtCall, fetchVars, loopVars >>

\* every frame returns the value to its caller and its locals are gone; the thread goes on where it
\* called cognito_login (line 289 for the fetcher, line 145 for the loop)
LoginReturn(th) ==
    /\ lpc[th] = "return"
    /\ lpc' = [lpc EXCEPT ![th] = "idle"]
    /\ depth' = [depth EXCEPT ![th] = 0]
    /\ auth' = [auth EXCEPT ![th] = NoAuth]
    /\ attempts' = [attempts EXCEPT ![th] = << >>]
    /\ heldAtCall' = [heldAtCall EXCEPT ![th] = None]
    /\ IF th = "fetcher"
       THEN /\ fpc' = "exchange"
            /\ idToken' = lret[th]
       ELSE UNCHANGED << fpc, idToken >>
    /\ spc' = IF th = "server" THEN "check" ELSE spc
    /\ UNCHANGED << inputVars, sideVars, provVars, cognito_tokens, token_cache, self_auth, now,
                    nextTok, calls, lret,
                    credentials, cond, reads, fsnap, fres, fetches, loop_exc >>

(* ------------------- load() and the fetch function -------------------- *)
Raised(e) == [kind |-> "raise", exc |-> e, expiry_time |-> NoTime, id |-> None]

\* load(), lines 179-182 and 191-193, or the hosting SDK invoking the fetch
\* function again: with a config the fetch function runs, without one the
\* result is None
Load ==
    /\ ctor.kind = "ok"
    /\ fpc \in {"idle", "done"}
    /\ fetches < MaxFetches
    /\ fetches' = fetches + 1
    /\ fsnap' = cognito_tokens
    /\ idToken' = None
    /\ credentials' = NoTime
    /\ cond' = FALSE
    /\ reads' = NoReads
    /\ IF config # {}
       THEN /\ fpc' = "read_id"
            /\ fres' = NoResult
       ELSE /\ fpc' = "done"
            /\ fres' = [NoResult EXCEPT !.kind = "none"]
    /\ UNCHANGED << inputVars, sideVars, provVars, cognito_tokens, token_cache, self_auth,
                    now, nextTok, calls, loginVars, loopVars >>

\* line 289: idToken = self.cognito_tokens["id_token"] or self.cognito_login()
FetchReadId ==
    /\ fpc = "read_id"
    /\ IF cognito_tokens.id_token = Absent
       THEN /\ fpc' = "done"
            /\ fres' = Raised("KeyError")
            /\ idToken' = idToken
            /\ UNCHANGED loginVars
       ELSE IF cognito_tokens.id_token = None
       THEN /\ fpc' = "login"
            /\ EnterLogin("fetcher")
            /\ UNCHANGED << fres, idToken >>
       ELSE /\ fpc' = "exchange"
            /\ idToken' = cognito_tokens.id_token
            /\ fres' = fres
            /\ UNCHANGED loginVars
    /\ UNCHANGED << inputVars, sideVars, provVars, cognito_tokens, token_cache, self_auth,
                    now, nextTok, calls, credentials, cond, reads, fsnap, fetches,
                    loopVars >>

\* lines 291-305: get_id and get_credentials_for_identity with idToken as the
\* login proof; lifetime 0 is a failure of either request
FetchExchange ==
    /\ fpc = "exchange"
    /\ \E lifetime \in {0} \cup CredLifetimes :
        /\ lifetime # 0 => idToken > 0
        /\ IF lifetime # 0
           THEN /\ credentials' = Datetime(now + lifetime)
                /\ fpc' = "compare"
                /\ fres' = fres
           ELSE /\ credentials' = credentials
                /\ fpc' = "done"
                /\ fres' = Raised("ClientError")
    /\ UNCHANGED << inputVars, sideVars, provVars, cognito_tokens, token_cache, self_auth,
                    now, nextTok, calls, loginVars, idToken, cond, reads, fsnap,
                    fetches, loopVars >>

\* a < b as Python evaluates it for a value read from the dict and a datetime
LessThan(a, b) ==
    IF a.type = "absent" THEN [exc |-> "KeyError", value |-> FALSE]
    ELSE IF a.type # b.type THEN [exc |-> "TypeError", value |-> FALSE]
    ELSE [exc |-> "", value |-> a.t < b.t]

\* line 308, the condition: token_expires < credentials Expiration
FetchCompare ==
    /\ fpc = "compare"
    /\ LET c == LessThan(cognito_tokens.token_expires, credentials) IN
        IF c.exc # ""
        THEN /\ fpc' = "done"
             /\ fres' = Raised(c.exc)
             /\ UNCHANGED << cond, reads >>
        ELSE /\ fpc' = "select"
             /\ cond' = c.value
             /\ reads' = [reads EXCEPT !.compare = cognito_tokens.id_token]
             /\ fres' = fres
    /\ UNCHANGED << inputVars, sideVars, provVars, cognito_tokens, token_cache, self_auth,
                    now, nextTok, calls, loginVars, idToken, credentials, fsnap,
                    fetches, loopVars >>

\* line 308, the value selected (token_expires is read again), lines 310-315
\* and load() wrapping the result in RefreshableCredentials (183-190)
FetchSelect ==
    /\ fpc = "select"
    /\ fpc' = "done"
    /\ reads' = [reads EXCEPT !.select = IF cond THEN cognito_tokens.id_token ELSE @]
    /\ fres' = [kind |-> "creds", exc |-> "",
                expiry_time |-> IF cond THEN cognito_tokens.token_expires ELSE credentials,
                id |-> idToken]
    /\ UNCHANGED << inputVars, sideVars, provVars, cognito_tokens, token_cache, self_auth,
                    now, nextTok, calls, loginVars, idToken, credentials, cond, fsnap,
                    fetches, loopVars >>

(* ---------------------- the background renewal loop ------------------- *)
\* TokenFetcher.__init__ (lines 113-115) / start_server: the loop thread is
\* started once the first cognito_login() call has returned
StartServer ==
    /\ ctor.kind = "ok"
    /\ spc = "off"
    /\ calls >= 1
    /\ lpc["caller"] = "idle"
    /\ spc' = "check"
    /\ UNCHANGED << inputVars, sideVars, provVars, cognito_tokens, token_cache, self_auth,
                    now, nextTok, calls, loginVars, fetchVars, loop_exc >>

\* line 143: what one evaluation of the inner while condition leads to:
\* an exception, the body (sleep) or leaving the inner loop (login)
LoopDecision(tokens, clock) ==
    LET p == strptime(tokens.token_expires, "%Y-%m-%dT%H:%M:%S") IN
    IF p.exc # "" THEN p.exc
    ELSE IF p.t < clock - Margin THEN "sleep"
    ELSE "login"

\* login_loop, lines 142-145: one evaluation of the inner while condition,
\* with sleep(5) when it holds and the call of cognito_login() when it fails;
\* an exception ends the thread
LoopCheck ==
    /\ spc = "check"
    /\ LET d == LoopDecision(cognito_tokens, now) IN
        IF d = "sleep"
        THEN /\ now' = now + SleepIncrement
             /\ UNCHANGED << spc, loop_exc, loginVars >>
        ELSE IF d = "login"
        THEN /\ spc' = "login"
             /\ EnterLogin("server")
             /\ UNCHANGED << now, loop_exc >>
        ELSE /\ spc' = "dead"
             /\ loop_exc' = d
             /\ UNCHANGED << now, loginVars >>
    /\ UNCHANGED << inputVars, sideVars, provVars, cognito_tokens, token_cache, self_auth,
                    nextTok, calls, fetchVars >>

\* time passes
Tick ==
    /\ now < MaxTicks * TickStep
    /\ now' = now + TickStep
    /\ UNCHANGED << inputVars, sideVars, provVars, cognito_tokens, token_cache, self_auth,
                    nextTok, calls, loginVars, fetchVars, loopVars >>

Next ==
    \/ CallLogin
    \/ \E th \in Threads : LoginAttempt(th)
    \/ \E th \in Threads : LoginAssign(th)
    \/ \E th \in Threads : LoginCache(th)
    \/ \E th \in Threads : LoginHandler(th)
    \/ \E th \in Threads : LoginReturn(th)
    \/ Load
    \/ FetchReadId
    \/ FetchExchange
    \/ FetchCompare
    \/ FetchSelect
    \/ StartServer
    \/ LoopCheck
    \/ Tick

Spec == Init /\ [][Next]_vars

\* the provider used by one thread that only logs in (TokenFetcher.fetch)
NextLogin ==
    \/ CallLogin
    \/ \E th \in Threads : LoginAttempt(th)
    \/ \E th \in Threads : LoginAssign(th)
    \/ \E th \in Threads : LoginCache(th)
    \/ \E th \in Threads : LoginHandler(th)
    \/ \E th \in Threads : LoginReturn(th)
    \/ Tick

SpecLogin == Init /\ [][NextLogin]_vars

\* the provider used by a single thread and without the renewal loop: a
\* login and a fetch never overlap.  The selection at line 308 is left out:
\* in such a run the comparison before it never completes (FetchCompare
\* ends every fetch that gets that far with an exception).
NextSequential ==
    \/ fpc \in {"idle", "done"} /\ CallLogin
    \/ \E th \in Threads : LoginAttempt(th)
    \/ \E th \in Threads : LoginAssign(th)
    \/ \E th \in Threads : LoginCache(th)
    \/ \E th \in Threads : LoginHandler(th)
    \/ \E th \in Threads : LoginReturn(th)
    \/ lpc["caller"] = "idle" /\ Load
    \/ FetchReadId
    \/ FetchExchange
    \/ FetchCompare
    \/ Tick

SpecSequential == Init /\ [][NextSequential]_vars

(* --------------------------- TokenCache alone ------------------------- *)
\* token mappings handed to cache_tokens
Triples ==
    { [id_token |-> i, access_token |-> a, token_expires |-> e, refresh_token |-> r] :
        i \in 1..MaxTokens, a \in 1..MaxTokens,
        e \in {Datetime(l) : l \in Lifetimes} \cup {Str(Datetime(l)) : l \in Lifetimes},
        r \in {None, 1} }

\* a TokenCache over a StringIO the caller supplies or over a path: the
\* buffer or file may hold anything, the file may not exist
InitialDocs == {EmptyCache, TextDoc, CutDoc} \cup {JsonDoc(Stringified(tr)) : tr \in Triples}
InitCache ==
    /\ cfgIn = {} /\ envIn = {} /\ authTypeIn = "none" /\ envAuthType = "unset"
    /\ ctor = Pending
    /\ config = {}
    /\ auth_func = "none"
    /\ cognito_tokens = NoTokens
    /\ token_cache \in { [backend |-> b, content |-> c, pos |-> 0, exists |-> e] :
                            b \in Backends, c \in InitialDocs, e \in BOOLEAN }
    /\ token_cache.backend = "StringIO" => token_cache.exists
    /\ ~token_cache.exists => token_cache.content = EmptyCache
    /\ Quiet

\* TokenCache.cache_tokens(tokens), lines 78-91; opening the file for
\* writing may fail, and then nothing is stored
CacheTokens ==
    /\ \E tr \in Triples :
       \E written \in (IF token_cache.backend = "file" THEN BOOLEAN ELSE {TRUE}) :
        IF written
        THEN /\ token_cache' = Stored(token_cache, Stringified(tr))
             /\ cache_in' = [kind |-> "triple", tokens |-> tr]
             /\ loads' = << >>
        ELSE UNCHANGED << token_cache, cache_in, loads >>
    /\ UNCHANGED << inputVars, provVars, cognito_tokens, self_auth, now, nextTok,
                    calls, loginVars, fetchVars, loopVars, instVars >>

\* self.cache.read() (line 97) or the file's content (lines 99-100): the
\* characters json parses; a StringIO yields what lies after its position
ReadText(cache) ==
    IF cache.backend = "StringIO" /\ cache.pos # 0 THEN EmptyCache ELSE cache.content

\* json.loads / json.load: the mapping, or the JSONDecodeError and its msg
json_loads(d) ==
    IF d.doc = "json" THEN [exc |-> "", msg |-> "", tokens |-> d.tokens]
    ELSE IF d.doc \in {"empty", "text"}
    THEN [exc |-> "JSONDecodeError", msg |-> "Expecting value", tokens |-> NoTokens]
    ELSE [exc |-> "JSONDecodeError",
          msg |-> "Expecting property name enclosed in double quotes",
          tokens |-> NoTokens]

\* TokenCache.tokens, lines 93-107: the mapping returned ("mapping", or
\* "empty" for {}) or the exception raised; backing and pos record what the
\* backend held when it was read
TokensResult(cache) ==
    LET backing == IF cache.exists THEN cache.content.doc ELSE "missing"
        j == json_loads(ReadText(cache))
    IN  IF cache.backend = "file" /\ ~cache.exists
        THEN [kind |-> "raise", exc |-> "FileNotFoundError", tokens |-> NoTokens,
              backing |-> backing, pos |-> cache.pos]
        ELSE IF j.exc = ""
        THEN [kind |-> "mapping", exc |-> "", tokens |-> j.tokens,
              backing |-> backing, pos |-> cache.pos]
        ELSE IF j.msg = "Expecting value"
        THEN [kind |-> "empty", exc |-> "", tokens |-> NoTokens,
              backing |-> backing, pos |-> cache.pos]
        ELSE [kind |-> "raise", exc |-> j.exc, tokens |-> NoTokens,
              backing |-> backing, pos |-> cache.pos]

\* the backend after TokenCache.tokens: read() leaves a StringIO at its end
AfterRead(cache) ==
    IF cache.backend = "StringIO" THEN [cache EXCEPT !.pos = 1] ELSE cache

\* TokenCache.tokens / TokenFetcher.tokens (lines 93-107, 121-123)
ReadTokens ==
    /\ Len(loads) < MaxLoads
    /\ loads' = Append(loads, TokensResult(token_cache))
    /\ token_cache' = AfterRead(token_cache)
    /\ UNCHANGED << inputVars, provVars, cognito_tokens, self_auth, now, nextTok,
                    calls, loginVars, fetchVars, loopVars, cache_in, instVars >>

NextCache ==
    \/ CacheTokens
    \/ ReadTokens

SpecCache == InitCache /\ [][NextCache]_vars

(* -------- several CognitoIdentity instances in one process ----------- *)
Instances == 1..MaxInstances

\* self.cognito_tokens read through instance i: the attribute of the
\* instance if it has one, otherwise the class attribute of line 155
Lookup(i) ==
    IF i \in DOMAIN inst_tokens THEN inst_tokens[i] ELSE class_tokens

\* self.cognito_tokens["refresh_token"] = None (lines 170, 221): an item
\* assignment into whichever dict the lookup finds
ClearRefresh(i) ==
    IF i \in DOMAIN inst_tokens
    THEN /\ inst_tokens' = [inst_tokens EXCEPT ![i].refresh_token = None]
         /\ UNCHANGED class_tokens
    ELSE /\ class_tokens' = [class_tokens EXCEPT !.refresh_token = None]
         /\ UNCHANGED inst_tokens

\* an assignment that stores the dict into the one shared by the class
AssignTokensShared(i, tokens) ==
    [cls |-> tokens, inst |-> inst_tokens]
\* self.cognito_tokens = {...} (line 208): an attribute assignment, which
\* binds the attribute on the instance and leaves the class alone
AssignTokens(i, tokens) ==
    [cls |-> class_tokens,
     inst |-> [k \in DOMAIN inst_tokens \cup {i} |->
                    IF k = i THEN tokens ELSE inst_tokens[k]]]

InitInstances ==
    /\ cfgIn = Fields /\ envIn = {}
    /\ authTypeIn \in {"user_srp", "user_password"}
    /\ envAuthType = "unset"
    /\ ctor = CognitoIdentityInit(cfgIn, envIn, authTypeIn, envAuthType)
    /\ config = ctor.config
    /\ auth_func = ctor.auth_func
    /\ cognito_tokens = NoTokens
    /\ token_cache = FreshCache("StringIO")
    /\ Quiet

\* CognitoIdentity(...) creating instance i: line 170 runs in every
\* construction, also in one that raises at line 177 and yields no instance
NewInstance(i) ==
    /\ i \notin built
    /\ ClearRefresh(i)
    /\ \E ok \in BOOLEAN : built' = IF ok THEN built \cup {i} ELSE built
    /\ UNCHANGED << inputVars, provVars, cognito_tokens, token_cache, self_auth, now,
                    nextTok, calls, loginVars, fetchVars, loopVars, cache_in, loads >>

\* an attempt of cognito_login() on instance i that fails: the handler's
\* line 221
InstLoginFail(i) ==
    /\ i \in built
    /\ ClearRefresh(i)
    /\ UNCHANGED << inputVars, provVars, cognito_tokens, token_cache, self_auth, now,
                    nextTok, calls, loginVars, fetchVars, loopVars, cache_in, loads,
                    built >>

\* an attempt of cognito_login() on instance i that succeeds: lines 200-215
InstLoginOk(i) ==
    /\ i \in built
    /\ nextTok <= MaxTokens
    /\ \E expiresIn \in Lifetimes :
        LET a == ServiceAuth(AuthFlowFor(Lookup(i), auth_func), nextTok, expiresIn)
            r == AssignTokens(i, Stringified(NewTokens(a, Lookup(i), now)))
        IN  /\ class_tokens' = r.cls
            /\ inst_tokens' = r.inst
    /\ nextTok' = nextTok + 1
    /\ UNCHANGED << inputVars, provVars, cognito_tokens, token_cache, self_auth, now,
                    calls, loginVars, fetchVars, loopVars, cache_in, loads, built >>

NextInstances ==
    \/ \E i \in Instances : NewInstance(i)
    \/ \E i \in Instances : InstLoginFail(i)
    \/ \E i \in Instances : InstLoginOk(i)
    \/ Tick

SpecInstances == InitInstances /\ [][NextInstances]_vars

(* ============================== claims ================================ *)
FullLogins(a) == {i \in 2..Len(a) : a[i].flow # "REFRESH_TOKEN_AUTH"}
AllFailed(a) == \A i \in DOMAIN a : ~a[i].ok
HeldExpiry == cognito_tokens.token_expires

\* C1: a cognito_login() call made while a refresh token is held makes the
\* refresh request its first upstream call; if that refresh fails, exactly
\* one fallback full-login attempt follows, made with the refresh token null.
C1_RefreshFirstOneFallback ==
    \A th \in Threads :
        LET a == attempts[th] IN
        (lpc[th] # "idle" /\ heldAtCall[th] # None /\ a # << >>) =>
            /\ a[1].flow = "REFRESH_TOKEN_AUTH"
            /\ ~a[1].ok =>
                /\ Cardinality(FullLogins(a)) <= 1
                /\ lpc[th] = "return" => Cardinality(FullLogins(a)) = 1
                /\ \A i \in FullLogins(a) : a[i].rt = None

\* C2: a cognito_login() call in which every upstream attempt fails makes at
\* most two attempts (the first and one retry with the refresh token
\* cleared) and then returns no token.
C2_AtMostTwoAttempts ==
    \A th \in Threads :
        LET a == attempts[th] IN
        AllFailed(a) =>
            /\ Len(a) <= 2
            /\ lpc[th] = "return" => lret[th] = None

\* C3: credentials returned by a fetch are built from one token set: the
\* identity token presented to the federation service and the token_expires
\* used for expiry_time belong to the same login.
C3_NoTornTriple ==
    fres.kind = "creds" =>
        /\ reads.compare = fres.id
        /\ cond => reads.select = fres.id

Min(x, y) == IF x < y THEN x ELSE y

\* C4: a fetch called after a login, once the federation service has issued
\* credentials, returns TemporaryCredentials whose expiry_time is the earlier
\* of the held token's expiry and the issued Expiration.
C4_JointExpiry ==
    (/\ fpc = "done"
     /\ fsnap.id_token > 0
     /\ fsnap = cognito_tokens
     /\ credentials.type = "datetime") =>
        /\ fres.kind = "creds"
        /\ fres.expiry_time = Datetime(Min(HeldExpiry.t, credentials.t))

\* C5: the fetch function of a configured provider that holds no identity
\* token invokes cognito_login() first (and does not fail for lack of a token).
C5_LoginWhenNoToken ==
    [][(FetchReadId /\ Fields \subseteq config
            /\ cognito_tokens.id_token \in {Absent, None})
        => (lpc'["fetcher"] = "call" /\ fpc' = "login")]_vars

\* C6: load() on a provider built with no Cognito configuration at all
\* returns None and raises nothing.
C6_NoConfigNoCredentials ==
    (cfgIn = {} /\ envIn = {} /\ fpc = "done") => fres.kind = "none"

\* C7: constructing the provider with a non-empty proper subset of the five
\* required fields in the explicit config, or (no explicit config given) of
\* the five variables in the environment, raises a configuration error whose
\* missing list is exactly the complement of what was supplied; with all
\* five present in the explicit config, or in the environment when no
\* explicit config is given, no configuration error is raised.
C7_PartialConfigRaises ==
    ctor.kind # "pending" =>
        LET supplied == cfgIn \cap Fields IN
        /\ (supplied # {} /\ supplied # Fields) =>
              /\ ctor.kind = "error" /\ ctor.error = "config"
              /\ Range(ctor.missing) = Fields \ supplied
              /\ Len(ctor.missing) = Cardinality(Fields \ supplied)
        /\ (cfgIn = {} /\ envIn # {} /\ envIn # EnvVars) =>
              /\ ctor.kind = "error" /\ ctor.error = "env"
              /\ Range(ctor.missing) = EnvVars \ envIn
              /\ Len(ctor.missing) = Cardinality(EnvVars \ envIn)
        /\ (supplied = Fields \/ (cfgIn = {} /\ envIn = EnvVars)) =>
              ctor.error \notin {"config", "env"}

\* a config with 3 of the 5 fields was rejected, naming 2 missing fields
C7_Witness ==
    /\ ctor.kind = "error"
    /\ Cardinality(cfgIn \cap Fields) = 3
    /\ Len(ctor.missing) = 2

\* C8: when the loop checks a token whose expiry is more than the margin in
\* the future it does not log in: it sleeps one increment and checks again.
C8_SleepsWhileFresh ==
    [][(LoopCheck /\ HeldExpiry.type # "absent" /\ HeldExpiry.t > now + Margin)
        => (spc' = "check" /\ now' = now + SleepIncrement /\ lpc'["server"] = "idle")]_vars

\* C9: when the loop checks a token whose expiry is within the margin (or
\* past), it invokes cognito_login() on that check without sleeping.
C9_LoginWhenMarginCrossed ==
    [][(LoopCheck /\ HeldExpiry.type # "absent" /\ HeldExpiry.t <= now + Margin)
        => (spc' = "login" /\ lpc'["server"] = "call" /\ now' = now)]_vars

\* C10: once started, the renewal loop never exits on its own.
C10_LoopNeverExits ==
    spc # "dead"

SameTriple(got, given) ==
    /\ got.id_token = given.id_token
    /\ got.access_token = given.access_token
    /\ got.refresh_token = given.refresh_token
    /\ got.token_expires.type # "absent"
    /\ got.token_expires.t = given.token_expires.t

\* C11: for either backend, the first load after a store returns a mapping
\* with the stored id_token, access_token and refresh_token and a
\* token_expires denoting the stored timestamp.
C11_RoundTrip ==
    (cache_in.kind = "triple" /\ loads # << >>) =>
        /\ loads[1].kind = "mapping"
        /\ SameTriple(loads[1].tokens, cache_in.tokens)

\* a triple holding a datetime was stored in a StringIO and loaded back
C11_Witness ==
    /\ cache_in.kind = "triple"
    /\ cache_in.tokens.token_expires.type = "datetime"
    /\ token_cache.backend = "StringIO"
    /\ Len(loads) = 1
    /\ loads[1].kind = "mapping"

\* C12: a load from an empty backend (empty buffer, empty file) or from a
\* file path that does not exist returns the empty mapping, raising nothing.
C12_EmptyOrMissingIsEmpty ==
    \A i \in DOMAIN loads :
        (loads[i].backing \in {"empty", "missing"}) => loads[i].kind = "empty"

\* C13: a load from a backend whose content is non-empty but not parsable
\* raises; the empty mapping is returned only for empty content.
C13_CorruptionRaises ==
    \A i \in DOMAIN loads :
        /\ loads[i].backing \in {"text", "cut"} => loads[i].kind = "raise"
        /\ loads[i].kind = "empty" => loads[i].backing = "empty"

\* C19: after a store, consecutive loads with no store in between all
\* return the same triple.
C19_ReadsDoNotChange ==
    cache_in.kind = "triple" =>
        \A i \in DOMAIN loads : /\ loads[i].kind = loads[1].kind
                                 /\ loads[i].tokens = loads[1].tokens

\* C14: a successful refresh installs the service's new id_token and
\* access_token and keeps the refresh token: the refresh token held after it
\* is the one the most recent full login was issued.
C14_RefreshKeepsRefreshToken ==
    \A th \in Threads :
        (/\ auth[th].flow = "REFRESH_TOKEN_AUTH"
         /\ \/ lpc[th] = "cache"
            \/ lpc[th] = "return" /\ lret[th] # None) =>
            /\ cognito_tokens.id_token = auth[th].IdToken
            /\ cognito_tokens.access_token = auth[th].AccessToken
            /\ cognito_tokens.refresh_token = heldAtCall[th]
            /\ cognito_tokens.refresh_token = self_auth
            /\ cognito_tokens.refresh_token > 0

\* a call that refreshed successfully is about to return its new id token
C14_Witness ==
    /\ lpc["caller"] = "return"
    /\ auth["caller"].flow = "REFRESH_TOKEN_AUTH"
    /\ lret["caller"] = cognito_tokens.id_token
    /\ cognito_tokens.id_token > cognito_tokens.refresh_token
    /\ cognito_tokens.refresh_token = self_auth

\* C17: the cache changes only in the step of a login attempt that obtained
\* a token set from the identity service, and then holds that set; so a
\* cognito_login() whose every attempt fails leaves the cache as it was.
C17_CacheWrittenOnlyOnSuccess ==
    [][token_cache' # token_cache =>
        \E th \in Threads :
            /\ lpc[th] = "cache"
            /\ attempts[th] # << >>
            /\ attempts[th][Len(attempts[th])].ok
            /\ token_cache'.content = JsonDoc(cognito_tokens')
            /\ cognito_tokens'.id_token = auth[th].IdToken]_vars

\* a call in which every attempt failed ends with the cache still holding
\* the document of an earlier login
C17_Witness ==
    /\ lpc["caller"] = "return"
    /\ attempts["caller"] # << >>
    /\ AllFailed(attempts["caller"])
    /\ token_cache.content.doc = "json"
    /\ token_cache.content.tokens.id_token > 0

\* C15: the login step that installs a token set gives it the expiry
\* (clock at that step) + ExpiresIn, and no other step (caching it, a later
\* credential exchange) changes the time it denotes.
C15_ExpiryIsLoginTimePlusLifetime ==
    [][/\ \A th \in Threads :
            LoginAssign(th) =>
                cognito_tokens'.token_expires = Datetime(now + auth[th].ExpiresIn)
       /\ HeldExpiry'.t # HeldExpiry.t => \E th \in Threads : lpc[th] = "assign"]_vars

\* a login made at a later clock reading was followed by a credential
\* exchange, and the expiry is still that reading plus the lifetime
C15_Witness ==
    /\ fpc = "done"
    /\ credentials.type = "datetime"
    /\ cognito_tokens.id_token > 0
    /\ (HeldExpiry.t - TickStep) \in Lifetimes

\* C16: used without the background loop, the fetch function never presents
\* an identity token to the federation service whose expires_at has passed.
C16_NoExpiredTokenPresented ==
    [][FetchExchange => HeldExpiry.t > now]_vars

\* C18: persisting the tokens leaves the live triple alone: once a login
\* has installed a token set its token_expires is a datetime value.
C18_LiveExpiryStaysDatetime ==
    cognito_tokens.id_token > 0 => HeldExpiry.type = "datetime"

\* C20: no operation on one instance (constructing it, an attempt of its
\* cognito_login() that succeeds or fails) changes the id_token,
\* access_token, refresh_token or token_expires read through another
\* constructed instance.
C20_TokenStatePerInstance ==
    [][\A i \in Instances : \A j \in built \ {i} :
            (NewInstance(i) \/ InstLoginOk(i) \/ InstLoginFail(i)) =>
                Lookup(j)' = Lookup(j)]_vars

\* two constructed instances: one logged in and holds its own tokens, the
\* other still reads the dict of the class
C20_Witness ==
    \E i \in built : \E j \in built :
        /\ i \in DOMAIN inst_tokens
        /\ j \notin DOMAIN inst_tokens
        /\ Lookup(i).id_token > 0
        /\ Lookup(j).id_token = Absent
        /\ Lookup(j).refresh_token = None

====
